---- MODULE Spec2Model ----
(***************************************************************************)
(* Model of stocker (src/stocker/tmp.py): Transaction, BuyTransaction,     *)
(* SellTransaction, Stock and StockManager.                                *)
(*                                                                         *)
(* Numbers.  Python's int is unbounded, and so is TLA+'s.  Prices and fee  *)
(* rates are floats in the source; the model keeps them as exact decimal   *)
(* fixed-point integers: a price is a number of cents, a rate a number of  *)
(* 1/RateScale units, so "1 - rate" is RateScale - rate.                   *)
(*                                                                         *)
(* Strings.  A timing string is kept as the list of fields str.split('-')  *)
(* returns for it; a field is the natural number int() gives for it, or    *)
(* NaI when int() rejects it (split on '-' leaves no sign in a field).     *)
(*                                                                         *)
(* Exceptions.  Every modelled call returns a record whose exc field is    *)
(* NoExc or the name of the exception the call raised, together with the   *)
(* object as the call left it (Python does not roll a mutation back).      *)
(***************************************************************************)
EXTENDS Integers, Sequences, FiniteSets, TLC

VARIABLES
    main_stock, \* the Stock object __main__ builds and uses on its own
    stocks,   \* StockManager.stocks: stock name -> Stock
    last,     \* the last completed call: its name, arguments and outcome
    tin,      \* the pair of timing strings handed to timing2id
    tout      \* the pair of results timing2id gave for them

vars == <<main_stock, stocks, last, tin, tout>>

----------------------------------------------------------------------------
(* Bounds and input sets *)

\* StockBuy and StockSell are offered while they leave the stock with at most
\* this many transactions (buys and sells together).
MaxTrans == 3

\* A loaded file holds at most this many buy records.
MaxRecords == 1

\* Largest year of a timing handed to timing2id in SpecTiming.
MaxYear == 1

RateScale == 100000

NaI == -1
NoExc == "none"

T1 == <<2024, 205, 10>>      \* "2024-0205-10"
T2 == <<2024, 312, 14>>      \* "2024-0312-14"
TShort == <<2024, 205>>      \* "2024-0205": two fields
TWord == <<2024, NaI, 10>>   \* "2024-Feb5-10": a field that is no integer

\* Timings handed to Stock.buy and, as buy_timing, to Stock.sell
Timings == {T1, T2, TShort}

\* Timings of the sells handed to Stock.sell
SellTimings == {T2, TShort}

Names == {"ABC", "XYZ"}
StockId == [n \in Names |-> IF n = "ABC" THEN 30063 ELSE 30064]

\* (commission, stamp_duty, transfer_fee): the rates of __main__ and the
\* defaults of Stock.__init__.
RateSets ==
    { [commission |-> 30, stamp_duty |-> 50, transfer_fee |-> 2],
      [commission |-> 50, stamp_duty |-> 50, transfer_fee |-> 1] }

\* Prices in cents.  TLC's integers have 32 bits where Python's numbers do
\* not overflow, so the quantities are kept small enough that
\* price * quantity * RateScale stays below 2^31.
BuyPrices == {2560}
SellPrices == {3636}
BuyQuantities == {0, 1, 2}
SellQuantities == {-1, 0, 1, 2}

----------------------------------------------------------------------------
(* Transaction *)

\* A mis-weighted identifier: the year is scaled like the month-day field.
timing2id_year4(timing) ==
    IF Len(timing) # 3
    THEN [exc |-> "AssertionError", ret |-> 0]
    ELSE IF \E i \in 1..3 : timing[i] = NaI
    THEN [exc |-> "ValueError", ret |-> 0]
    ELSE [exc |-> NoExc,
          ret |-> timing[1] * 10^4 + timing[2] * 10^2 + timing[3]]

timing2id(timing) ==
    IF Len(timing) # 3
    THEN [exc |-> "AssertionError", ret |-> 0]
    ELSE IF \E i \in 1..3 : timing[i] = NaI
    THEN [exc |-> "ValueError", ret |-> 0]
    ELSE [exc |-> NoExc,
          ret |-> timing[1] * 10^6 + timing[2] * 10^2 + timing[3]]

\* Transaction.__init__; the inputs drawn are a str, a number and an int, so
\* the three isinstance assertions pass and timing2id decides the outcome.
Transaction_init(kind, timing, price, quantity) ==
    LET r == timing2id(timing) IN
    [exc |-> r.exc,
     self |-> [kind |-> kind, timing |-> timing, id |-> r.ret,
               price |-> price, quantity |-> quantity]]

fee(tr) == tr.price * tr.quantity

\* SellTransaction.service_percent with the stamp duty forgotten.
SellTransaction_service_percent_nostamp(stock) ==
    stock.commission + stock.transfer_fee

BuyTransaction_service_percent(stock) ==
    LET ret == stock.commission + stock.transfer_fee IN ret

SellTransaction_service_percent(stock) ==
    stock.commission + stock.transfer_fee + stock.stamp_duty

\* Dispatch of the service_percent property on the transaction's class;
\* stock is self.stock, the stock that built the transaction.
service_percent(stock, tr) ==
    IF tr.kind = "Buy"
    THEN BuyTransaction_service_percent(stock)
    ELSE SellTransaction_service_percent(stock)

\* fee * (1 - service_percent), in units of 1/RateScale cent
fee_final(stock, tr) == fee(tr) * (RateScale - service_percent(stock, tr))

\* fee * service_percent, in units of 1/RateScale cent
service_charge(stock, tr) == fee(tr) * service_percent(stock, tr)

----------------------------------------------------------------------------
(* BuyTransaction, SellTransaction *)

BuyTransaction_init(timing, price, quantity) ==
    LET r == Transaction_init("Buy", timing, price, quantity) IN
    [exc |-> r.exc,
     self |-> [kind |-> "Buy", timing |-> timing, id |-> r.self.id,
               price |-> price, quantity |-> quantity,
               empty |-> FALSE, sells |-> <<>>]]

SellTransaction_init(timing, price, quantity) ==
    Transaction_init("Sell", timing, price, quantity)

\* The for loop of quantity_left from its i-th iteration on.
RECURSIVE quantity_left_loop(_, _, _)
quantity_left_loop(delta, sells, i) ==
    IF i > Len(sells)
    THEN delta
    ELSE quantity_left_loop(delta - sells[i].quantity, sells, i + 1)

\* The quantity_left property: the value it returns and the buy as the read
\* leaves it (it stores the empty flag).
quantity_left(self) ==
    LET delta == quantity_left_loop(self.quantity, self.sells, 1) IN
    [ret |-> delta, self |-> [self EXCEPT !.empty = (delta = 0)]]

\* BuyTransaction.sell with the assertion left out.
BuyTransaction_sell_unchecked(self, tr) ==
    LET appended == [self EXCEPT !.sells = Append(self.sells, tr)] IN
    [exc |-> NoExc, self |-> quantity_left(appended).self]

\* BuyTransaction.sell: append, then assert.  A failed assertion reads
\* quantity_left once more for its message, which stores the same flag.
BuyTransaction_sell(self, tr) ==
    LET appended == [self EXCEPT !.sells = Append(self.sells, tr)]
        q == quantity_left(appended)
    IN  IF q.ret >= 0
        THEN [exc |-> NoExc, self |-> q.self]
        ELSE [exc |-> "AssertionError", self |-> quantity_left(q.self).self]

\* One line "price x quantity, service_percent / fee: fee_final = fee -
\* service_charge" of the report, as the tuple of the numbers it prints.
Line(stock, tr) ==
    [price |-> tr.price, quantity |-> tr.quantity,
     service_percent |-> service_percent(stock, tr),
     fee_final |-> fee_final(stock, tr), fee |-> fee(tr),
     service_charge |-> service_charge(stock, tr)]

\* BuyTransaction.__str__: the heading with the timing, the Buy line and one
\* line per sell in list order.
BuyTransaction_str(stock, self) ==
    [timing |-> self.timing,
     buy |-> Line(stock, self),
     sell |-> [i \in 1..Len(self.sells) |-> Line(stock, self.sells[i])]]

----------------------------------------------------------------------------
(* dict: a Python dict as the list of its items in insertion order *)

DictKeys(d) == { d[i].key : i \in 1..Len(d) }

DictIndex(d, k) == CHOOSE i \in 1..Len(d) : d[i].key = k

DictGet(d, k) == d[DictIndex(d, k)].val

\* d[k] = v: a new key goes last, a key already present keeps its place
DictSet(d, k, v) ==
    IF k \in DictKeys(d)
    THEN [d EXCEPT ![DictIndex(d, k)] = [key |-> k, val |-> v]]
    ELSE Append(d, [key |-> k, val |-> v])

----------------------------------------------------------------------------
(* Stock *)

Stock_init(name, id, commission, stamp_duty, transfer_fee) ==
    [id |-> id, name |-> name, commission |-> commission,
     stamp_duty |-> stamp_duty, transfer_fee |-> transfer_fee,
     tr_recorder |-> <<>>]

\* Stock.__str__: the title and str(tr) of every item of _tr_recorder, in
\* the dict's order.
Stock_str(self) ==
    [title |-> <<self.name, self.id>>,
     blocks |-> [i \in 1..Len(self.tr_recorder) |->
                    BuyTransaction_str(self, self.tr_recorder[i].val)]]

Stock_buy(self, timing, price, quantity) ==
    LET tr == BuyTransaction_init(timing, price, quantity) IN
    IF tr.exc # NoExc
    THEN [exc |-> tr.exc, self |-> self]
    ELSE [exc |-> NoExc,
          self |-> [self EXCEPT !.tr_recorder =
                        DictSet(self.tr_recorder, tr.self.id, tr.self)]]

\* Stock.sell that looks the buy up under the sell's own timing.
Stock_sell_own_timing(self, buy_timing, timing, price, quantity) ==
    LET tr == SellTransaction_init(timing, price, quantity)
        key == timing2id(timing)
    IN  IF tr.exc # NoExc
        THEN [exc |-> tr.exc, self |-> self]
        ELSE IF key.ret \notin DictKeys(self.tr_recorder)
        THEN [exc |-> "KeyError", self |-> self]
        ELSE LET r == BuyTransaction_sell(
                          DictGet(self.tr_recorder, key.ret), tr.self)
             IN  [exc |-> r.exc,
                  self |-> [self EXCEPT !.tr_recorder =
                               DictSet(self.tr_recorder, key.ret, r.self)]]

\* Stock.sell: the sell is built first (line 108), then the buy is looked up
\* (line 109), then the buy, which the dict still holds, is changed in place.
Stock_sell(self, buy_timing, timing, price, quantity) ==
    LET tr == SellTransaction_init(timing, price, quantity)
        key == timing2id(buy_timing)
    IN  IF tr.exc # NoExc
        THEN [exc |-> tr.exc, self |-> self]
        ELSE IF key.exc # NoExc
        THEN [exc |-> key.exc, self |-> self]
        ELSE IF key.ret \notin DictKeys(self.tr_recorder)
        THEN [exc |-> "KeyError", self |-> self]
        ELSE LET r == BuyTransaction_sell(
                          DictGet(self.tr_recorder, key.ret), tr.self)
             IN  [exc |-> r.exc,
                  self |-> [self EXCEPT !.tr_recorder =
                               DictSet(self.tr_recorder, key.ret, r.self)]]

----------------------------------------------------------------------------
(* StockManager *)

\* The inner loop of add_database (lines 136-142) from its j-th sell on.
RECURSIVE load_sells(_, _, _, _)
load_sells(stock, buy, sells, j) ==
    IF j > Len(sells)
    THEN [exc |-> NoExc, self |-> stock]
    ELSE LET r == Stock_sell(stock, buy.timing, sells[j].timing,
                             sells[j].price, sells[j].quantity)
         IN  IF r.exc # NoExc THEN r ELSE load_sells(r.self, buy, sells, j + 1)

\* The outer loop of add_database (lines 130-142) from its i-th buy on.
RECURSIVE load_record(_, _, _)
load_record(stock, record, i) ==
    IF i > Len(record)
    THEN [exc |-> NoExc, self |-> stock]
    ELSE LET b == Stock_buy(stock, record[i].timing, record[i].price,
                            record[i].quantity)
         IN  IF b.exc # NoExc
             THEN b
             ELSE LET r == load_sells(b.self, record[i], record[i].sell, 1)
                  IN  IF r.exc # NoExc
                      THEN r
                      ELSE load_record(r.self, record, i + 1)

DictPut(f, k, v) == [x \in DOMAIN f \cup {k} |-> IF x = k THEN v ELSE f[x]]

\* add_database: the Stock is stored under its name (line 128) before its
\* records are loaded into it, so the manager holds whatever the loops did
\* to it when one of them raises.
add_database(self, file) ==
    IF ~file.readable
    THEN [exc |-> "FileNotFoundError", self |-> self]
    ELSE LET db == file.db
             stock == Stock_init(db.name, db.id, db.commission,
                                 db.stamp_duty, db.transfer_fee)
             r == load_record(stock, db.record, 1)
         IN  [exc |-> r.exc, self |-> DictPut(self, stock.name, r.self)]

----------------------------------------------------------------------------
(* Inputs of add_database *)

DbSell(timing, quantity) ==
    [timing |-> timing, price |-> 3636, quantity |-> quantity]

\* Buy records: loaded whole, loaded whole with two sells, oversold by the
\* first sell, oversold by the second sell, a sell with a malformed timing,
\* a buy with a malformed timing.
DbBuys ==
    { [timing |-> T2, price |-> 2560, quantity |-> 1, sell |-> <<>>],
      [timing |-> T1, price |-> 2560, quantity |-> 2,
       sell |-> <<DbSell(T2, 1), DbSell(T2, 1)>>],
      [timing |-> T1, price |-> 2560, quantity |-> 1, sell |-> <<DbSell(T2, 2)>>],
      [timing |-> T1, price |-> 2560, quantity |-> 1,
       sell |-> <<DbSell(T2, 1), DbSell(T2, 1)>>],
      [timing |-> T1, price |-> 2560, quantity |-> 1, sell |-> <<DbSell(TWord, 1)>>],
      [timing |-> TShort, price |-> 2560, quantity |-> 1, sell |-> <<>>] }

RECURSIVE SeqsUpTo(_, _)
SeqsUpTo(S, n) ==
    IF n = 0
    THEN { <<>> }
    ELSE LET shorter == SeqsUpTo(S, n - 1) IN
         shorter \cup { Append(q, x) : q \in { r \in shorter : Len(r) = n - 1 },
                                       x \in S }

Dbs ==
    { [name |-> n, id |-> StockId[n], commission |-> r.commission,
       stamp_duty |-> r.stamp_duty, transfer_fee |-> r.transfer_fee,
       record |-> rec] :
        n \in Names, r \in RateSets, rec \in SeqsUpTo(DbBuys, MaxRecords) }

NoDb == [name |-> "", id |-> 0, commission |-> 0, stamp_duty |-> 0,
         transfer_fee |-> 0, record |-> <<>>]

Files ==
    { [readable |-> TRUE, db |-> d] : d \in Dbs }
    \cup { [readable |-> FALSE, db |-> NoDb] }

----------------------------------------------------------------------------
(* A Stock used on its own, as lines 153-159 of __main__ use one *)

\* Number of transactions (buys and sells) a dict of buys holds
RECURSIVE CountSeq(_, _)
CountSeq(d, i) ==
    IF i > Len(d) THEN 0 ELSE 1 + Len(d[i].val.sells) + CountSeq(d, i + 1)

Size(s) == CountSeq(s.tr_recorder, 1)

Call(op, name, buy_timing, timing, quantity, exc, ret) ==
    [op |-> op, name |-> name, buy_timing |-> buy_timing, timing |-> timing,
     quantity |-> quantity, exc |-> exc, ret |-> ret]

NoCall == Call("init", "", <<>>, <<>>, 0, NoExc, <<>>)

NoResult == <<>>

\* stock = Stock('ABC', 30063, commission=..., stamp_duty=..., transfer_fee=...)
Init ==
    /\ main_stock \in { Stock_init("ABC", StockId["ABC"], r.commission,
                              r.stamp_duty, r.transfer_fee) : r \in RateSets }
    /\ stocks = <<>>
    /\ last = NoCall
    /\ tin = <<T1, T1>>
    /\ tout = NoResult

\* stock.buy(timing, price, quantity)
StockBuy ==
    \E timing \in Timings, price \in BuyPrices, quantity \in BuyQuantities :
        LET r == Stock_buy(main_stock, timing, price, quantity) IN
        /\ Size(r.self) <= MaxTrans
        /\ main_stock' = r.self
        /\ last' = Call("buy", main_stock.name, <<>>, timing, quantity, r.exc, <<>>)
        /\ UNCHANGED <<stocks, tin, tout>>

\* stock.sell(buy_timing, timing, price, quantity)
StockSell ==
    \E buy_timing \in Timings, timing \in SellTimings, price \in SellPrices,
       quantity \in SellQuantities :
        LET r == Stock_sell(main_stock, buy_timing, timing, price, quantity) IN
        /\ Size(r.self) <= MaxTrans
        /\ main_stock' = r.self
        /\ last' = Call("sell", main_stock.name, buy_timing, timing, quantity,
                        r.exc, <<>>)
        /\ UNCHANGED <<stocks, tin, tout>>

\* str(stock)
StockStr ==
    /\ last' = Call("str", main_stock.name, <<>>, <<>>, 0, NoExc, Stock_str(main_stock))
    /\ UNCHANGED <<main_stock, stocks, tin, tout>>

Next == StockBuy \/ StockSell \/ StockStr

Spec == Init /\ [][Next]_vars

----------------------------------------------------------------------------
(* A StockManager, as lines 163-164 of __main__ use one *)

NoStock == Stock_init("", 0, 0, 0, 0)

InitManager ==
    /\ main_stock = NoStock
    /\ stocks = <<>>
    /\ last = NoCall
    /\ tin = <<T1, T1>>
    /\ tout = NoResult

\* smgr.add_database(file)
AddDatabase ==
    \E file \in Files :
        LET r == add_database(stocks, file) IN
        /\ stocks' = r.self
        /\ last' = Call("add_database", file.db.name, <<>>, <<>>, 0, r.exc, <<>>)
        /\ UNCHANGED <<main_stock, tin, tout>>

NextManager == AddDatabase

SpecManager == InitManager /\ [][NextManager]_vars

----------------------------------------------------------------------------
(* timing2id as a pure function of two timing strings *)

MonthDays == {0, 1, 9998, 9999, 10000}
Sequences2 == {0, 1, 98, 99, 100}

TimingInputs ==
    { <<y, md, s>> : y \in 0..MaxYear, md \in MonthDays, s \in Sequences2 }
    \cup {T1, T2, TShort, TWord}

InitTiming ==
    /\ main_stock = NoStock
    /\ stocks = <<>>
    /\ last = NoCall
    /\ tin \in TimingInputs \X TimingInputs
    /\ tout = NoResult

Timing2Id ==
    /\ tout = NoResult
    /\ tout' = <<timing2id(tin[1]), timing2id(tin[2])>>
    /\ UNCHANGED <<main_stock, stocks, last, tin>>

NextTiming == Timing2Id

SpecTiming == InitTiming /\ [][NextTiming]_vars

----------------------------------------------------------------------------
(* Properties *)

\* Sum of the quantities of a list of sells
RECURSIVE SumQ(_)
SumQ(sells) ==
    IF sells = <<>> THEN 0 ELSE sells[1].quantity + SumQ(Tail(sells))

Remaining(b) == b.quantity - SumQ(b.sells)

Buys(s) == { s.tr_recorder[i].val : i \in 1..Len(s.tr_recorder) }

WellFormed(timing) == timing2id(timing).exc = NoExc

Key(timing) == timing2id(timing).ret

\* The buy a Stock.sell call with this buy_timing is made against
Target(s, buy_timing) == DictGet(s.tr_recorder, Key(buy_timing))

HasTarget(s, buy_timing) ==
    /\ WellFormed(buy_timing)
    /\ Key(buy_timing) \in DictKeys(s.tr_recorder)

\* C1: in the state a successful sell call on a buy leaves, the buy's
\* quantity_left is its quantity minus the sum of the quantities of its
\* sells, and is not negative.
C1_QuantityLeft ==
    (last.op = "sell" /\ last.exc = NoExc) =>
        LET b == Target(main_stock, last.buy_timing) IN
        /\ quantity_left(b).ret = b.quantity - SumQ(b.sells)
        /\ quantity_left(b).ret >= 0

\* A second successful sell on a buy has used it up.
C1_Witness ==
    /\ last.op = "sell"
    /\ last.exc = NoExc
    /\ Len(Target(main_stock, last.buy_timing).sells) = 2
    /\ Target(main_stock, last.buy_timing).quantity = 2
    /\ quantity_left(Target(main_stock, last.buy_timing)).ret = 0

\* C2: a sell whose quantity would make the quantity left of its buy
\* negative fails with the quantity-exceeded error, leaves the buy's sell
\* list as it was, and leaves the quantity left non-negative.
C2_RejectedSellNotAttached ==
    [][ ( /\ last'.op = "sell"
          /\ WellFormed(last'.timing)
          /\ HasTarget(main_stock, last'.buy_timing)
          /\ Remaining(Target(main_stock, last'.buy_timing)) >= 0
          /\ Remaining(Target(main_stock, last'.buy_timing)) - last'.quantity < 0 )
        => ( /\ last'.exc = "AssertionError"
             /\ Target(main_stock', last'.buy_timing).sells
                    = Target(main_stock, last'.buy_timing).sells
             /\ quantity_left(Target(main_stock', last'.buy_timing)).ret >= 0 )
      ]_vars

\* C3 as stated: Stock.sell with a buy_timing whose identifier is no key of
\* the buy mapping fails with the not-found error and changes nothing.
C3_UnknownBuyIsNotFound ==
    [][ ( /\ last'.op = "sell"
          /\ WellFormed(last'.buy_timing)
          /\ Key(last'.buy_timing) \notin DictKeys(main_stock.tr_recorder) )
        => ( /\ last'.exc = "KeyError"
             /\ main_stock' = main_stock )
      ]_vars

\* C3 as amended: Stock.sell with a buy_timing whose identifier is no key
\* of the buy mapping fails and changes nothing; the failure is the
\* not-found error when the sell's own timing is well formed, and the error
\* of the sell's constructor, raised before the look-up, when it is not.
C3_UnknownBuyFails ==
    [][ ( /\ last'.op = "sell"
          /\ WellFormed(last'.buy_timing)
          /\ Key(last'.buy_timing) \notin DictKeys(main_stock.tr_recorder) )
        => ( /\ main_stock' = main_stock
             /\ last'.exc = IF WellFormed(last'.timing)
                            THEN "KeyError"
                            ELSE timing2id(last'.timing).exc )
      ]_vars

\* A sell against an unknown buy was refused with the not-found error in a
\* stock that holds another buy with a sell attached.
C3_Witness ==
    /\ last.op = "sell"
    /\ last.exc = "KeyError"
    /\ WellFormed(last.buy_timing)
    /\ Key(last.buy_timing) \notin DictKeys(main_stock.tr_recorder)
    /\ \E b \in Buys(main_stock) : b.sells # <<>>

\* C4: when add_database fails part-way through a record, every stock the
\* manager held before the call is still held under its name, unchanged.
C4_FailedLoadKeepsStocks ==
    [][ ( /\ last'.op = "add_database"
          /\ last'.exc \in {"AssertionError", "ValueError", "KeyError"} )
        => \A n \in DOMAIN stocks :
              n \in DOMAIN stocks' /\ stocks'[n] = stocks[n]
      ]_vars

\* C5: Stock.buy with a timing whose identifier is already a key fails with
\* a duplicate-key error, and the buy recorded under it, with its sells,
\* stays in the mapping.
C5_DuplicateBuyRejected ==
    [][ ( /\ last'.op = "buy"
          /\ HasTarget(main_stock, last'.timing) )
        => ( /\ last'.exc # NoExc
             /\ Target(main_stock', last'.timing)
                    = Target(main_stock, last'.timing) )
      ]_vars

\* C6: after every completed Stock.buy or Stock.sell, the empty flag of
\* each buy is true exactly when its quantity minus its sells' is 0.
C6_EmptyIffNothingLeft ==
    (last.op \in {"buy", "sell"}) =>
        \A b \in Buys(main_stock) : b.empty <=> (Remaining(b) = 0)

\* C10: after a successful Stock.sell, whatever the sign of the quantities
\* sold, the quantity left of every buy is within 0..quantity.
C10_QuantityLeftInRange ==
    (last.op = "sell" /\ last.exc = NoExc) =>
        \A b \in Buys(main_stock) :
            quantity_left(b).ret \in 0..b.quantity

\* The timings C7 speaks of: three integer fields, the second within
\* 0..9999 and the third within 0..99.
InRange(timing) ==
    /\ Len(timing) = 3
    /\ \A i \in 1..3 : timing[i] # NaI
    /\ timing[1] >= 0
    /\ timing[2] \in 0..9999
    /\ timing[3] \in 0..99

LexLess(a, b) ==
    \/ a[1] < b[1]
    \/ a[1] = b[1] /\ a[2] < b[2]
    \/ a[1] = b[1] /\ a[2] = b[2] /\ a[3] < b[3]

\* C7: for timings "Y-MD-S" with Y >= 0, MD in 0..9999 and S in 0..99,
\* timing2id returns Y*10^6 + MD*10^2 + S, two different timings get
\* different identifiers, and one timing is lexicographically less than
\* another exactly when its identifier is the smaller one.
C7_IdOrderPreserving ==
    (tout # NoResult /\ InRange(tin[1]) /\ InRange(tin[2])) =>
        /\ \A i \in 1..2 :
              /\ tout[i].exc = NoExc
              /\ tout[i].ret = tin[i][1] * 1000000 + tin[i][2] * 100 + tin[i][3]
        /\ (tout[1].ret = tout[2].ret) => (tin[1] = tin[2])
        /\ LexLess(tin[1], tin[2]) <=> (tout[1].ret < tout[2].ret)

\* The last timing of a year and the first of the next get neighbouring
\* identifiers.
C7_Witness ==
    /\ tout # NoResult
    /\ tin[1] = <<0, 9999, 99>>
    /\ tin[2] = <<1, 0, 0>>
    /\ tout[1].ret = 999999
    /\ tout[2].ret = 1000000

\* C8: the report lists the buys in the order they were recorded (a buy
\* just recorded is the last block, the blocks of the other buys stay as
\* they were and in the order they had) and the
\* sells of a buy in the order they were attached (a sell just attached is
\* the last line of its block, all else as it was); rendering returns that
\* report and changes nothing.
C8_ReportInRecordingOrder ==
    [][ /\ (last'.op = "buy" /\ last'.exc = NoExc) =>
              LET pre == Stock_str(main_stock).blocks
                  post == Stock_str(main_stock').blocks
                  Older(block) == block.timing # last'.timing
              IN  /\ post[Len(post)]
                        = BuyTransaction_str(main_stock',
                                             Target(main_stock', last'.timing))
                  /\ SelectSeq(post, Older) = SelectSeq(pre, Older)
        /\ (last'.op = "sell" /\ last'.exc = NoExc) =>
              LET pre == Stock_str(main_stock).blocks
                  post == Stock_str(main_stock').blocks
                  i == DictIndex(main_stock.tr_recorder, Key(last'.buy_timing))
              IN  /\ Len(post) = Len(pre)
                  /\ \A j \in 1..Len(pre) : j # i => post[j] = pre[j]
                  /\ post[i].timing = pre[i].timing
                  /\ post[i].buy = pre[i].buy
                  /\ Len(post[i].sell) = Len(pre[i].sell) + 1
                  /\ SubSeq(post[i].sell, 1, Len(pre[i].sell)) = pre[i].sell
                  /\ post[i].sell[Len(post[i].sell)].quantity = last'.quantity
        /\ (last'.op = "str") =>
              /\ main_stock' = main_stock
              /\ last'.ret.title = <<main_stock.name, main_stock.id>>
              /\ Len(last'.ret.blocks) = Len(main_stock.tr_recorder)
              /\ \A j \in 1..Len(main_stock.tr_recorder) :
                    LET b == main_stock.tr_recorder[j].val IN
                    /\ last'.ret.blocks[j].timing = b.timing
                    /\ Len(last'.ret.blocks[j].sell) = Len(b.sells)
                    /\ \A k \in 1..Len(b.sells) :
                          last'.ret.blocks[j].sell[k].quantity
                              = b.sells[k].quantity
      ]_vars

\* The numbers of one report line satisfy the fee formulas, with the given
\* rate as the service percent.
LineOk(line, rate) ==
    /\ line.service_percent = rate
    /\ line.fee = line.price * line.quantity
    /\ line.service_charge = line.fee * rate
    /\ line.fee_final = line.fee * RateScale - line.fee * rate
    /\ line.fee_final + line.service_charge = line.fee * RateScale

\* C9: for every transaction the report prints, fee = price * quantity,
\* service_charge = fee * service_percent, fee_final = fee * (1 -
\* service_percent), hence fee_final + service_charge = fee; the service
\* percent is the stock's commission + transfer_fee on a buy and
\* commission + transfer_fee + stamp_duty on a sell.
C9_FeeArithmetic ==
    (last.op = "str") =>
        \A j \in 1..Len(last.ret.blocks) :
            LET block == last.ret.blocks[j] IN
            /\ LineOk(block.buy, main_stock.commission + main_stock.transfer_fee)
            /\ \A k \in 1..Len(block.sell) :
                  LineOk(block.sell[k],
                         main_stock.commission + main_stock.transfer_fee
                             + main_stock.stamp_duty)

\* The report of the stock of __main__ (commission 0.0003, stamp duty
\* 0.0005, transfer fee 0.00002) prints a buy at 25.60 with service percent
\* 0.00032 and a sell at 36.36 with service percent 0.00082.
C9_Witness ==
    /\ last.op = "str"
    /\ \E j \in 1..Len(last.ret.blocks) :
          LET block == last.ret.blocks[j] IN
          /\ block.buy.price = 2560
          /\ block.buy.quantity = 2
          /\ block.buy.service_percent = 32
          /\ block.buy.fee = 5120
          /\ block.buy.fee_final = 5120 * (RateScale - 32)
          /\ Len(block.sell) = 1
          /\ block.sell[1].service_percent = 82
          /\ block.sell[1].fee = 7272
          /\ block.sell[1].fee_final = 7272 * (RateScale - 82)
          /\ block.sell[1].service_charge = 7272 * 82

====
